---- MODULE Spec2Model ----
(***************************************************************************)
(* A model of three leaf artifacts of the expo repository:                 *)
(*   - UnimplementedViewProps::setComponentName / getComponentName         *)
(*     (ABI46_0_0UnimplementedViewProps.cpp),                              *)
(*   - the ABI46_0_0EXDeviceType enumeration (ABI46_0_0EXDevice.h),        *)
(*   - the EXJavaScriptFunction wrapper (EXJavaScriptFunction.h).          *)
(* The three artifacts share no state, so each has a specification of its  *)
(* own: Spec (the props accessors), SpecDevice and SpecJSI.                *)
(***************************************************************************)
EXTENDS Integers, Sequences, FiniteSets, TLC

VARIABLES
  componentName_,  \* [Props -> ComponentNames]: the member of each instance
  ret,             \* value returned by the last getComponentName of an instance
  lastOp,          \* last call made on an instance: "none", "set" or "get"
  lastSet,         \* argument of the most recent setComponentName of an instance
  prevSet,         \* argument of the setComponentName call before that one
  setCalls,        \* setComponentName calls on an instance so far (saturating)
  getCalls,        \* getComponentName calls since the last set (saturating)
  member,          \* device: the enumerator a caller names
  raw,             \* device: the NSInteger a caller holds
  valueOut,        \* device: <<v>>, the value the native enum gives `member`; <<>> before
  nameOut,         \* device: the native enumerator `raw` denotes
  jsOut,           \* device: the scripting-layer member the exported value denotes
  fnState,         \* jsi: state of each jsi::Function object
  useCount,        \* jsi: shared_ptr use count of each jsi::Function
  extRefs,         \* jsi: shared handles held outside the wrappers
  rtAlive,         \* jsi: whether each EXJavaScriptRuntime is alive
  wrappers,        \* jsi: each EXJavaScriptFunction slot: NoWrapper or its fields
  lastInit         \* jsi: <<w, function, runtime>> of the last initWith:runtime:, <<>> before

propsVars == <<componentName_, ret, lastOp, lastSet, prevSet, setCalls, getCalls>>
deviceVars == <<member, raw, valueOut, nameOut, jsOut>>
jsiVars == <<fnState, useCount, extRefs, rtAlive, wrappers, lastInit>>
vars == <<propsVars, deviceVars, jsiVars>>

(***************************************************************************)
(* Bounds.                                                                 *)
(***************************************************************************)
\* number of distinct non-default component names
NumNames == 2
\* the call counters saturate here
MaxCalls == 2

(***************************************************************************)
(* UnimplementedViewProps                                                  *)
(***************************************************************************)
\* the instances of UnimplementedViewProps
Props == {"p1", "p2"}

\* ComponentName values; 0 is the value-initialised (empty) name
ComponentNames == 0..NumNames

\* no value yet: a value outside ComponentNames
NoValue == NumNames + 1

Bump(n) == IF n < MaxCalls THEN n + 1 ELSE MaxCalls

\* the assignment written the wrong way round: the member keeps its value
Stored_keepsOld(old, componentName) == old

\* a store that only fills an empty member
Stored_keepsFirst(old, componentName) == IF old = 0 THEN componentName ELSE old

\* componentName_ = componentName;   (old: the member before the call)
Stored(old, componentName) == componentName

\* return componentName_;
Returned(p) == componentName_[p]

\* a getter that moves the name out and leaves the member empty
AfterGet_movedOut(p) == 0

\* the member after getComponentName() const
AfterGet(p) == componentName_[p]

RecordSet(p, componentName) ==
  /\ lastOp' = [lastOp EXCEPT ![p] = "set"]
  /\ prevSet' = [prevSet EXCEPT ![p] = lastSet[p]]
  /\ lastSet' = [lastSet EXCEPT ![p] = componentName]
  /\ setCalls' = [setCalls EXCEPT ![p] = Bump(setCalls[p])]
  /\ getCalls' = [getCalls EXCEPT ![p] = 0]
  /\ UNCHANGED ret

\* a setter that accepts only the first call on an instance
setComponentName_once(p, componentName) ==
  /\ setCalls[p] = 0
  /\ componentName_' = [componentName_ EXCEPT ![p] = Stored(componentName_[p], componentName)]
  /\ RecordSet(p, componentName)
  /\ UNCHANGED <<deviceVars, jsiVars>>

setComponentName(p, componentName) ==
  /\ componentName_' = [componentName_ EXCEPT ![p] = Stored(componentName_[p], componentName)]
  /\ RecordSet(p, componentName)
  /\ UNCHANGED <<deviceVars, jsiVars>>

\* a getter that refuses to read before the first set
getComponentName_guarded(p) ==
  /\ setCalls[p] >= 1
  /\ ret' = [ret EXCEPT ![p] = Returned(p)]
  /\ componentName_' = [componentName_ EXCEPT ![p] = AfterGet(p)]
  /\ lastOp' = [lastOp EXCEPT ![p] = "get"]
  /\ getCalls' = [getCalls EXCEPT ![p] = Bump(getCalls[p])]
  /\ UNCHANGED <<lastSet, prevSet, setCalls, deviceVars, jsiVars>>

getComponentName(p) ==
  /\ ret' = [ret EXCEPT ![p] = Returned(p)]
  /\ componentName_' = [componentName_ EXCEPT ![p] = AfterGet(p)]
  /\ lastOp' = [lastOp EXCEPT ![p] = "get"]
  /\ getCalls' = [getCalls EXCEPT ![p] = Bump(getCalls[p])]
  /\ UNCHANGED <<lastSet, prevSet, setCalls, deviceVars, jsiVars>>

InitProps ==
  /\ componentName_ \in [Props -> ComponentNames]
  /\ ret = [p \in Props |-> NoValue]
  /\ lastOp = [p \in Props |-> "none"]
  /\ lastSet = [p \in Props |-> NoValue]
  /\ prevSet = [p \in Props |-> NoValue]
  /\ setCalls = [p \in Props |-> 0]
  /\ getCalls = [p \in Props |-> 0]

IdleDevice ==
  /\ member = "Unknown"
  /\ raw = 0
  /\ valueOut = <<>>
  /\ nameOut = "none"
  /\ jsOut = "none"

IdleJSI ==
  /\ fnState = <<>>
  /\ useCount = <<>>
  /\ extRefs = <<>>
  /\ rtAlive = <<>>
  /\ wrappers = <<>>
  /\ lastInit = <<>>

Init == InitProps /\ IdleDevice /\ IdleJSI

Next ==
  \/ \E p \in Props, componentName \in ComponentNames : setComponentName(p, componentName)
  \/ \E p \in Props : getComponentName(p)

Spec == Init /\ [][Next]_vars

(***************************************************************************)
(* Properties of the UnimplementedViewProps accessors (checked under Spec) *)
(***************************************************************************)

\* C1: on every instance, a getComponentName() that follows setComponentName(x)
\* with no other setComponentName in between returns exactly x.
C1_GetReturnsSet ==
  \A p \in Props :
    (lastOp[p] = "get" /\ setCalls[p] >= 1) => ret[p] = lastSet[p]

\* a read that follows a set of a name other than the value-initialised one
C1_Witness ==
  \E p \in Props : lastOp[p] = "get" /\ setCalls[p] >= 1 /\ lastSet[p] = NumNames

\* C2: setComponentName and getComponentName have no error conditions: in every
\* reachable state both are enabled on every instance, for every argument, and
\* a completed getComponentName has yielded a ComponentName, never an error.
C2_NoErrorConditions ==
  \A p \in Props :
    /\ \A componentName \in ComponentNames : ENABLED setComponentName(p, componentName)
    /\ ENABLED getComponentName(p)
    /\ lastOp[p] \in {"none", "set", "get"}
    /\ (lastOp[p] = "get" => ret[p] \in ComponentNames)

\* an instance that has already been set and read, where both stay enabled
C2_Witness ==
  \E p \in Props : setCalls[p] = MaxCalls /\ getCalls[p] >= 1 /\ lastOp[p] = "get"

\* C3 as claimed: getComponentName() is never performed on an instance before
\* setComponentName has been called on it at least once.
C3_SetBeforeReadEnforced ==
  \A p \in Props : lastOp[p] = "get" => setCalls[p] >= 1

\* C3 as amended: no set-before-read check exists: getComponentName() is enabled
\* on an instance that has never been set, and then returns the value
\* componentName_ holds at that moment.
C3_ReadBeforeSetAllowed ==
  \A p \in Props :
    setCalls[p] = 0 =>
      /\ ENABLED getComponentName(p)
      /\ (lastOp[p] = "get" => ret[p] = componentName_[p])

\* a read performed before any set
C3_Witness ==
  \E p \in Props : lastOp[p] = "get" /\ setCalls[p] = 0

\* C4 as claimed: componentName_ is mutated exactly once: after the one
\* setComponentName call every later step leaves componentName_ as it is.
C4_MutatedOnce ==
  [][\A p \in Props :
       setCalls[p] >= 1 => componentName_'[p] = componentName_[p]]_vars

\* C4 as amended: componentName_ changes only in setComponentName steps, which
\* may be repeated any number of times; every other step only reads it.
C4_OnlySetMutates ==
  [][\A p \in Props :
       componentName_'[p] # componentName_[p] =>
         /\ lastOp'[p] = "set"
         /\ componentName_'[p] = lastSet'[p]
         /\ ret'[p] = ret[p]]_vars

\* an instance set twice with different names, then read
C4_Witness ==
  \E p \in Props :
    /\ setCalls[p] >= 2
    /\ prevSet[p] # lastSet[p]
    /\ lastOp[p] = "get"

\* C8: getComponentName() leaves the instance unchanged, so consecutive
\* getComponentName() calls with no setComponentName in between return the
\* same value.
C8_GetIsPure ==
  [][\A p \in Props :
       lastOp'[p] = "get" =>
         /\ componentName_'[p] = componentName_[p]
         /\ (lastOp[p] = "get" => ret'[p] = ret[p])]_vars

\* two consecutive reads of a non-default name
C8_Witness ==
  \E p \in Props :
    lastOp[p] = "get" /\ getCalls[p] >= 2 /\ ret[p] # 0 /\ ret[p] = componentName_[p]

\* C9: setComponentName is last-write-wins and unconditional: after any
\* sequence of one or more calls the member (and so what getComponentName()
\* returns) is the argument of the most recent call, and a further call is
\* never rejected.
C9_LastWriteWins ==
  \A p \in Props :
    setCalls[p] >= 1 =>
      /\ componentName_[p] = lastSet[p]
      /\ Returned(p) = lastSet[p]
      /\ \A componentName \in ComponentNames : ENABLED setComponentName(p, componentName)

\* a second call with a different argument replaced a non-default first one
C9_Witness ==
  \E p \in Props :
    /\ setCalls[p] >= 2
    /\ prevSet[p] \notin {0, NoValue, lastSet[p]}
    /\ lastOp[p] = "get"
    /\ ret[p] = lastSet[p]


(***************************************************************************)
(* ABI46_0_0EXDeviceType                                                   *)
(***************************************************************************)
NoMember == "noMember"

\* an enumerator list with the initialiser of the second enumerator lost
EXDeviceTypeDecl_shifted ==
  << [name |-> "Unknown", init |-> <<0>>],
     [name |-> "Phone",   init |-> <<0>>],
     [name |-> "Tablet",  init |-> <<>>],
     [name |-> "Desktop", init |-> <<>>],
     [name |-> "TV",      init |-> <<>>] >>

\* an enumerator list with two enumerators in the other order
EXDeviceTypeDecl_swapped ==
  << [name |-> "Unknown", init |-> <<0>>],
     [name |-> "Tablet",  init |-> <<>>],
     [name |-> "Phone",   init |-> <<>>],
     [name |-> "Desktop", init |-> <<>>],
     [name |-> "TV",      init |-> <<>>] >>

\* typedef NS_ENUM(NSInteger, ABI46_0_0EXDeviceType) { ... }: the enumerators as
\* declared, each with its initialiser if it has one
EXDeviceTypeDecl ==
  << [name |-> "Unknown", init |-> <<0>>],
     [name |-> "Phone",   init |-> <<>>],
     [name |-> "Tablet",  init |-> <<>>],
     [name |-> "Desktop", init |-> <<>>],
     [name |-> "TV",      init |-> <<>>] >>

\* the scripting-layer DeviceType enum, members in the order the data model
\* lists them, none with an initialiser but the first
JSDeviceTypeDecl ==
  << [name |-> "Unknown", init |-> <<0>>],
     [name |-> "Phone",   init |-> <<>>],
     [name |-> "Tablet",  init |-> <<>>],
     [name |-> "Desktop", init |-> <<>>],
     [name |-> "TV",      init |-> <<>>] >>

\* the value of the i-th enumerator of a declaration: its initialiser, or one
\* more than the enumerator before it, or 0 for a first one without initialiser
RECURSIVE EnumValue(_, _)
EnumValue(decl, i) ==
  IF decl[i].init # <<>> THEN decl[i].init[1]
  ELSE IF i = 1 THEN 0
  ELSE EnumValue(decl, i - 1) + 1

EnumNames(decl) == {decl[i].name : i \in 1..Len(decl)}

EnumValues(decl) == {EnumValue(decl, i) : i \in 1..Len(decl)}

\* the value of the enumerator called name
EnumValueOf(decl, name) ==
  EnumValue(decl, CHOOSE i \in 1..Len(decl) : decl[i].name = name)

\* the first enumerator with value v, NoMember when there is none
EnumNameOf(decl, v) ==
  IF v \in EnumValues(decl)
  THEN LET first == CHOOSE i \in 1..Len(decl) :
                      /\ EnumValue(decl, i) = v
                      /\ \A j \in 1..(i - 1) : EnumValue(decl, j) # v
       IN decl[first].name
  ELSE NoMember

\* how far below and above the declared values a caller's NSInteger may lie
RawMargin == 2

RawValues == (0 - RawMargin)..(Len(EXDeviceTypeDecl) - 1 + RawMargin)

\* a caller names an enumerator and reads its value
ReadValue(m) ==
  /\ member' = m
  /\ valueOut' = <<EnumValueOf(EXDeviceTypeDecl, m)>>
  /\ jsOut' = "none"
  /\ UNCHANGED <<raw, nameOut, propsVars, jsiVars>>

\* a caller holds an NSInteger and asks which enumerator it is
ClassifyRaw(v) ==
  /\ raw' = v
  /\ nameOut' = EnumNameOf(EXDeviceTypeDecl, v)
  /\ UNCHANGED <<member, valueOut, jsOut, propsVars, jsiVars>>

\* the value read on the native side crosses to the scripting layer, which
\* reads it as a member of its own enum
ExportToJS ==
  /\ valueOut # <<>>
  /\ jsOut' = EnumNameOf(JSDeviceTypeDecl, valueOut[1])
  /\ UNCHANGED <<member, raw, valueOut, nameOut, propsVars, jsiVars>>

IdleProps ==
  /\ componentName_ = [p \in Props |-> 0]
  /\ ret = [p \in Props |-> NoValue]
  /\ lastOp = [p \in Props |-> "none"]
  /\ lastSet = [p \in Props |-> NoValue]
  /\ prevSet = [p \in Props |-> NoValue]
  /\ setCalls = [p \in Props |-> 0]
  /\ getCalls = [p \in Props |-> 0]

InitDevice ==
  /\ member \in EnumNames(EXDeviceTypeDecl)
  /\ raw \in RawValues
  /\ valueOut = <<>>
  /\ nameOut = "none"
  /\ jsOut = "none"
  /\ IdleProps
  /\ IdleJSI

NextDevice ==
  \/ \E m \in EnumNames(EXDeviceTypeDecl) : ReadValue(m)
  \/ \E v \in RawValues : ClassifyRaw(v)
  \/ ExportToJS

SpecDevice == InitDevice /\ [][NextDevice]_vars

(***************************************************************************)
(* Properties of ABI46_0_0EXDeviceType (checked under SpecDevice)          *)
(***************************************************************************)

\* C5: DeviceType has exactly the five members Unknown, Phone, Tablet, Desktop,
\* TV; their values are pairwise distinct and are 0, 1, 2, 3, 4 in that order;
\* no other value is a member.
C5_DeviceTypeValues ==
  /\ Len(EXDeviceTypeDecl) = 5
  /\ EnumNames(EXDeviceTypeDecl) = {"Unknown", "Phone", "Tablet", "Desktop", "TV"}
  /\ Cardinality(EnumValues(EXDeviceTypeDecl)) = Len(EXDeviceTypeDecl)
  /\ (valueOut # <<>> =>
        valueOut[1] = CASE member = "Unknown" -> 0
                     [] member = "Phone"   -> 1
                     [] member = "Tablet"  -> 2
                     [] member = "Desktop" -> 3
                     [] member = "TV"      -> 4)
  /\ (nameOut # "none" =>
        /\ (nameOut = NoMember <=> raw \notin 0..4)
        /\ (nameOut # NoMember => EnumValueOf(EXDeviceTypeDecl, nameOut) = raw))

\* the last enumerator has been read as 4 and a value past it found to be no member
C5_Witness ==
  /\ member = "TV"
  /\ valueOut = <<4>>
  /\ raw = 5
  /\ nameOut = NoMember

MaxHandles == 2

\* the jsi::Function objects, the runtimes and the wrapper objects
Functions == {"f1", "f2"}
Runtimes == {"rt1", "rt2"}
Wrappers == {"w1", "w2"}

NoWrapper == [function |-> "none", runtime |-> "none"]

\* the wrappers that refer to function f
WrappersOf(f) == {w \in Wrappers : wrappers[w] # NoWrapper /\ wrappers[w].function = f}

\* the wrappers that refer to runtime r
WrappersOn(r) == {w \in Wrappers : wrappers[w] # NoWrapper /\ wrappers[w].runtime = r}

\* one shared reference to f is dropped; the last one destroys the function
DropReference(f) ==
  /\ useCount' = [useCount EXCEPT ![f] = useCount[f] - 1]
  /\ fnState' = [fnState EXCEPT ![f] = IF useCount[f] - 1 = 0 THEN "destroyed" ELSE fnState[f]]

\* std::make_shared<jsi::Function>: the JS engine hands out the first handle
MakeShared(f) ==
  /\ fnState[f] = "none"
  /\ fnState' = [fnState EXCEPT ![f] = "alive"]
  /\ useCount' = [useCount EXCEPT ![f] = 1]
  /\ extRefs' = [extRefs EXCEPT ![f] = 1]
  /\ UNCHANGED <<rtAlive, wrappers, lastInit, propsVars, deviceVars>>

\* a holder outside the wrappers copies its handle
CopyHandle(f) ==
  /\ extRefs[f] >= 1
  /\ extRefs[f] < MaxHandles
  /\ extRefs' = [extRefs EXCEPT ![f] = extRefs[f] + 1]
  /\ useCount' = [useCount EXCEPT ![f] = useCount[f] + 1]
  /\ UNCHANGED <<fnState, rtAlive, wrappers, lastInit, propsVars, deviceVars>>

\* a holder outside the wrappers drops its handle
ReleaseHandle(f) ==
  /\ extRefs[f] >= 1
  /\ extRefs' = [extRefs EXCEPT ![f] = extRefs[f] - 1]
  /\ DropReference(f)
  /\ UNCHANGED <<rtAlive, wrappers, lastInit, propsVars, deviceVars>>

\* a wrapper that keeps a plain reference and no shared handle
Retained_borrowed(f) == useCount[f]

\* the use count of f once a wrapper refers to it: the wrapper keeps a shared handle

Retained(f) == useCount[f] + 1

\* - initWith:(std::shared_ptr<jsi::Function>)function runtime:(nonnull ...)runtime
\* called by a holder of a handle to f, with a live runtime
initWith(w, f, r) ==
  /\ wrappers[w] = NoWrapper
  /\ extRefs[f] >= 1
  /\ rtAlive[r]
  /\ wrappers' = [wrappers EXCEPT ![w] = [function |-> f, runtime |-> r]]
  /\ useCount' = [useCount EXCEPT ![f] = Retained(f)]
  /\ lastInit' = <<w, f, r>>
  /\ UNCHANGED <<fnState, extRefs, rtAlive, propsVars, deviceVars>>

\* the wrapper is deallocated and its shared handle with it
dealloc(w) ==
  /\ wrappers[w] # NoWrapper
  /\ wrappers' = [wrappers EXCEPT ![w] = NoWrapper]
  /\ DropReference(wrappers[w].function)
  /\ UNCHANGED <<extRefs, rtAlive, lastInit, propsVars, deviceVars>>

\* the embedding engine tears a runtime down; the runtime outlives its wrappers
DestroyRuntime(r) ==
  /\ rtAlive[r]
  /\ WrappersOn(r) = {}
  /\ rtAlive' = [rtAlive EXCEPT ![r] = FALSE]
  /\ UNCHANGED <<fnState, useCount, extRefs, wrappers, lastInit, propsVars, deviceVars>>

InitJSI ==
  /\ fnState = [f \in Functions |-> "none"]
  /\ useCount = [f \in Functions |-> 0]
  /\ extRefs = [f \in Functions |-> 0]
  /\ rtAlive = [r \in Runtimes |-> TRUE]
  /\ wrappers = [w \in Wrappers |-> NoWrapper]
  /\ lastInit = <<>>
  /\ IdleProps
  /\ IdleDevice

NextJSI ==
  \/ \E f \in Functions : MakeShared(f)
  \/ \E f \in Functions : CopyHandle(f)
  \/ \E f \in Functions : ReleaseHandle(f)
  \/ \E w \in Wrappers, f \in Functions, r \in Runtimes : initWith(w, f, r)
  \/ \E w \in Wrappers : dealloc(w)
  \/ \E r \in Runtimes : DestroyRuntime(r)

SpecJSI == InitJSI /\ [][NextJSI]_vars

(***************************************************************************)
(* Properties of EXJavaScriptFunction (checked under SpecJSI)              *)
(***************************************************************************)

====
